---- MODULE Spec2Model ----
(***************************************************************************)
(* A model of src/app.ts: the TypeScript advanced-types demonstration      *)
(* script.  The functions of the script (printEmployeeInformation,         *)
(* useVehicle, moveAnimal, add) and its expression idioms (type-cast       *)
(* writes, optional chaining, nullish coalescing) are operators over a     *)
(* small universe of JavaScript values.  Spec applies each of them to      *)
(* inputs drawn from bounded sets; ScriptSpec runs the top-level           *)
(* statements of the script in order against a document that may or may    *)
(* not hold the elements the script looks up.                              *)
(***************************************************************************)
EXTENDS Integers, Sequences, FiniteSets, TLC

VARIABLES
    pc,        \* position of the script: the line of the next statement
    call,      \* the function or idiom last applied, with its arguments
    console,   \* lines written by console.log, each the tuple of its arguments
    invoked,   \* method invocations on vehicles, in order
    dom,       \* the document: element id (or tag) -> element, or Null
    writes,    \* property writes performed on elements, in order
    store,     \* the script's top-level const bindings
    outcome    \* completion of the last call / of the script: return or throw

vars == <<pc, call, console, invoked, dom, writes, store, outcome>>

(***************************************************************************)
(* Bounds of the model.                                                    *)
(***************************************************************************)
\* numbers are counted in halves (exact in IEEE doubles): -MaxHalf..MaxHalf
MaxHalf == 3
\* ticks of the clock read by new Date()
MaxTick == 1

(***************************************************************************)
(* JavaScript values.                                                      *)
(***************************************************************************)
Undefined == [t |-> "undefined"]
Null == [t |-> "null"]
Bool(b) == [t |-> "boolean", b |-> b]
Str(s) == [t |-> "string", s |-> s]
\* a number, stored as its count of halves: Num(55) is 27.5
Num(h) == [t |-> "number", h |-> h]
NumInt(i) == Num(2 * i)
Arr(a) == [t |-> "array", a |-> a]
DateV(d) == [t |-> "date", d |-> d]
\* a plain object: f maps its own property names to values
Obj(f) == [t |-> "object", f |-> f]
\* an instance of a class of the script
Instance(cls) == [t |-> "instance", cls |-> cls]
\* a reference to the element of the document stored under id
ElementRef(id) == [t |-> "element", id |-> id]

Return(v) == [kind |-> "return", v |-> v]
Throw(e) == [kind |-> "throw", e |-> e]

\* typeof v
TypeOf(v) ==
    CASE v.t = "undefined" -> "undefined"
      [] v.t = "boolean" -> "boolean"
      [] v.t = "string" -> "string"
      [] v.t = "number" -> "number"
      [] OTHER -> "object"

\* ToBoolean(v): the falsy values are undefined, null, false, "" and 0
ToBoolean(v) ==
    CASE v.t = "undefined" -> FALSE
      [] v.t = "null" -> FALSE
      [] v.t = "boolean" -> v.b
      [] v.t = "string" -> v.s # ""
      [] v.t = "number" -> v.h # 0
      [] OTHER -> TRUE

\* k in obj
HasProperty(obj, k) == k \in DOMAIN obj.f

\* obj.k: a missing property reads as undefined
GetProp(obj, k) == IF k \in DOMAIN obj.f THEN obj.f[k] ELSE Undefined

Digit(d) ==
    CASE d = 0 -> "0" [] d = 1 -> "1" [] d = 2 -> "2" [] d = 3 -> "3"
      [] d = 4 -> "4" [] d = 5 -> "5" [] d = 6 -> "6" [] d = 7 -> "7"
      [] d = 8 -> "8" [] d = 9 -> "9"

RECURSIVE NatToString(_)
NatToString(n) ==
    IF n < 10 THEN Digit(n) ELSE NatToString(n \div 10) \o Digit(n % 10)

\* Number::toString of the number of h halves: "6", "27.5", "-0.5"
NumberToString(h) ==
    LET a == IF h < 0 THEN -h ELSE h
        s == IF a % 2 = 0 THEN NatToString(a \div 2)
                          ELSE NatToString(a \div 2) \o ".5"
    IN  IF h < 0 THEN "-" \o s ELSE s

\* ToString(v) of a primitive, as applied by string concatenation
ToStringPrim(v) ==
    CASE v.t = "undefined" -> "undefined"
      [] v.t = "null" -> "null"
      [] v.t = "boolean" -> IF v.b THEN "true" ELSE "false"
      [] v.t = "string" -> v.s
      [] v.t = "number" -> NumberToString(v.h)

\* a + b on primitives: concatenation as soon as one operand is a string
Plus(a, b) ==
    IF a.t = "string" \/ b.t = "string"
    THEN Str(ToStringPrim(a) \o ToStringPrim(b))
    ELSE Num(a.h + b.h)

(***************************************************************************)
(* Type guards: printEmployeeInformation (lines 52-63).                    *)
(***************************************************************************)
\* the guards written as truthiness tests (emp.privileges), not as "in" tests
printEmployeeInformation_truthy(emp) ==
    <<  <<Str("Name: "), GetProp(emp, "name")>>  >>
    \o (IF ToBoolean(GetProp(emp, "privileges"))
        THEN <<  <<Str("Privileges: "), GetProp(emp, "privileges")>>  >>
        ELSE <<>>)
    \o (IF ToBoolean(GetProp(emp, "startDate"))
        THEN <<  <<Str("Start Date: "), GetProp(emp, "startDate")>>  >>
        ELSE <<>>)

printEmployeeInformation(emp) ==
    <<  <<Str("Name: "), GetProp(emp, "name")>>  >>
    \o (IF HasProperty(emp, "privileges")
        THEN <<  <<Str("Privileges: "), GetProp(emp, "privileges")>>  >>
        ELSE <<>>)
    \o (IF HasProperty(emp, "startDate")
        THEN <<  <<Str("Start Date: "), GetProp(emp, "startDate")>>  >>
        ELSE <<>>)

(***************************************************************************)
(* Type guards: Car, Truck and useVehicle (lines 68-95).  The effect of a  *)
(* call is the method invocations it makes and the lines it logs.          *)
(***************************************************************************)
Then(e, f) ==
    [invoked |-> e.invoked \o f.invoked, console |-> e.console \o f.console]

InstanceOf(v, cls) == v.t = "instance" /\ v.cls = cls

\* vehicle.drive(): Car.drive (69-71) or Truck.drive (75-77)
Drive(vehicle) ==
    [invoked |-> << [cls |-> vehicle.cls, method |-> "drive", args |-> <<>>] >>,
     console |-> << << Str(IF InstanceOf(vehicle, "Truck")
                           THEN "Driving a truck..." ELSE "Driving...") >> >>]

\* vehicle.loadCargo(amount): Truck.loadCargo (78-80)
LoadCargo(vehicle, amount) ==
    [invoked |-> << [cls |-> vehicle.cls, method |-> "loadCargo",
                     args |-> <<amount>>] >>,
     console |-> << << Plus(Str("loading cargo..."), amount) >> >>]

\* the instanceof guard dropped: loadCargo is invoked on every vehicle
useVehicle_unguarded(vehicle) ==
    Then(Drive(vehicle), LoadCargo(vehicle, NumInt(1000)))

useVehicle(vehicle) ==
    IF InstanceOf(vehicle, "Truck")
    THEN Then(Drive(vehicle), LoadCargo(vehicle, NumInt(1000)))
    ELSE Drive(vehicle)

(***************************************************************************)
(* Discriminated union: moveAnimal (lines 118-131).                        *)
(***************************************************************************)
\* the two cases reading each other's field
AnimalSpeed_swapped(animal) ==
    CASE GetProp(animal, "type") = Str("bird") -> GetProp(animal, "runningSpeed")
      [] GetProp(animal, "type") = Str("horse") -> GetProp(animal, "flyingSpeed")
      [] OTHER -> Undefined

\* the switch: speed stays undefined when no case matches
AnimalSpeed(animal) ==
    CASE GetProp(animal, "type") = Str("bird") -> GetProp(animal, "flyingSpeed")
      [] GetProp(animal, "type") = Str("horse") -> GetProp(animal, "runningSpeed")
      [] OTHER -> Undefined

moveAnimal(animal) ==
    <<  << Plus(Str("Moving with speed: "), AnimalSpeed(animal)) >>  >>

(***************************************************************************)
(* Function overloads: add (lines 190-199).                                *)
(***************************************************************************)
\* the concatenation with its operands in the wrong order
add_swapped(a, b) ==
    IF TypeOf(a) = "string" \/ TypeOf(b) = "string"
    THEN Str(ToStringPrim(b) \o ToStringPrim(a))
    ELSE Plus(a, b)

add(a, b) ==
    IF TypeOf(a) = "string" \/ TypeOf(b) = "string"
    THEN Str(ToStringPrim(a) \o ToStringPrim(b))
    ELSE Plus(a, b)

(***************************************************************************)
(* Type casting (lines 154-167).                                           *)
(***************************************************************************)
\* document.getElementById(id) / document.querySelector(tag)
getElementById(d, id) == IF d[id] = Null THEN Null ELSE ElementRef(id)

\* <HTMLInputElement>v, v as HTMLInputElement and v!: erased by the compiler,
\* nothing is checked when the script runs
AssertedCast(v) == v

\* props with property k set to v (created when the element did not have it)
WithProp(props, k, v) ==
    [j \in DOMAIN props \cup {k} |-> IF j = k THEN v ELSE props[j]]

\* a write through an absent reference dropped silently instead of throwing
SetValue_silent(d, w, ref, v) ==
    IF ref.t \in {"null", "undefined"}
    THEN [dom |-> d, writes |-> w, outcome |-> Return(v)]
    ELSE [dom |-> [d EXCEPT ![ref.id] =
                      [tag |-> @.tag, props |-> WithProp(@.props, "value", v)]],
          writes |-> Append(w, [id |-> ref.id, field |-> "value", value |-> v]),
          outcome |-> Return(v)]

\* ref.value = v on the document d with write log w
SetValue(d, w, ref, v) ==
    IF ref.t \in {"null", "undefined"}
    THEN [dom |-> d, writes |-> w, outcome |-> Throw("TypeError")]
    ELSE [dom |-> [d EXCEPT ![ref.id] =
                      [tag |-> @.tag, props |-> WithProp(@.props, "value", v)]],
          writes |-> Append(w, [id |-> ref.id, field |-> "value", value |-> v]),
          outcome |-> Return(v)]

\* lines 154-155 (and 158-159): cast the lookup, then write
UncheckedWrite(d, w) ==
    LET userInputElement1 == AssertedCast(getElementById(d, "user-input"))
    IN  SetValue(d, w, userInputElement1, Str("Hi there!"))

\* the presence test left out
CheckedWrite_untested(d, w) ==
    SetValue(d, w, AssertedCast(getElementById(d, "user-input")), Str("Hi there!"))

\* lines 164-167: look up, test, then cast and write
CheckedWrite(d, w) ==
    LET userInputElement3 == getElementById(d, "user-input")
    IN  IF ToBoolean(userInputElement3)
        THEN SetValue(d, w, AssertedCast(userInputElement3), Str("Hi there!"))
        ELSE [dom |-> d, writes |-> w, outcome |-> Return(Undefined)]

(***************************************************************************)
(* Optional chaining (lines 214-220) and nullish coalescing (223-229).     *)
(***************************************************************************)
IsNullish(v) == v.t \in {"null", "undefined"}

\* data.job.title
PlainAccess(data) ==
    IF IsNullish(data) THEN Throw("TypeError")
    ELSE IF IsNullish(GetProp(data, "job")) THEN Throw("TypeError")
    ELSE Return(GetProp(GetProp(data, "job"), "title"))

\* data.job && data.job.title
GuardedAccess(data) ==
    IF IsNullish(data) THEN Throw("TypeError")
    ELSE IF ~ToBoolean(GetProp(data, "job")) THEN Return(GetProp(data, "job"))
    ELSE Return(GetProp(GetProp(data, "job"), "title"))

\* the chain without its question marks
OptionalAccess_plain(data) ==
    IF IsNullish(data) THEN Throw("TypeError")
    ELSE IF IsNullish(GetProp(data, "job")) THEN Throw("TypeError")
    ELSE Return(GetProp(GetProp(data, "job"), "title"))

\* data?.job?.title
OptionalAccess(data) ==
    IF IsNullish(data) THEN Return(Undefined)
    ELSE IF IsNullish(GetProp(data, "job")) THEN Return(Undefined)
    ELSE Return(GetProp(GetProp(data, "job"), "title"))

\* a || b
LogicalOr(a, b) == IF ToBoolean(a) THEN a ELSE b

\* ?? behaving like ||
NullishCoalesce_falsy(a, b) == IF ToBoolean(a) THEN a ELSE b

\* a ?? b
NullishCoalesce(a, b) == IF IsNullish(a) THEN b ELSE a

(***************************************************************************)
(* The inputs the functions and idioms are applied to.                     *)
(***************************************************************************)
Numbers == {Num(h) : h \in -MaxHalf..MaxHalf} \cup {NumInt(1), NumInt(5), Num(55)}

Strings == {Str("Geo"), Str(" Sauer"), Str(""), Str("5")}

Combinables == Numbers \cup Strings

Dates == {DateV(d) : d \in 0..MaxTick}

\* the objects whose own properties are a subset of the keys of vals, each
\* property k holding one of vals[k]
ObjectsOver(vals) ==
    LET all == UNION {vals[k] : k \in DOMAIN vals}
    IN  {Obj(f) : f \in UNION {{g \in [D -> all] : \A k \in D : g[k] \in vals[k]} :
                               D \in SUBSET DOMAIN vals}}

Employees ==
    ObjectsOver([name |-> {Str("Geo"), Str("Kallyn")},
                 privileges |-> {Arr(<<Str("create-server")>>), Arr(<<>>), Undefined},
                 startDate |-> Dates \cup {Undefined}])

Vehicles == {Instance("Car"), Instance("Truck")}

Animals ==
    ObjectsOver([type |-> {Str("bird"), Str("horse"), Str("fish")},
                 flyingSpeed |-> Numbers,
                 runningSpeed |-> Numbers])

InputElement(v) == [tag |-> "input", props |-> [value |-> Str(v)]]
DivElement == [tag |-> "div", props |-> [id |-> Str("user-input")]]
ParagraphElement == [tag |-> "p", props |-> [id |-> Str("message-output")]]

\* what the document may hold under the id user-input
UserInputStates == {Null, InputElement(""), InputElement("old"), DivElement}

EmptyDocument == [id \in {"p", "message-output", "user-input"} |-> Null]

Jobs ==
    {Null, Undefined} \cup
    ObjectsOver([title |-> {Str("CEO")}, description |-> {Str("My own company")}])

FetchedUsers ==
    {Null, Undefined} \cup
    ObjectsOver([id |-> {Str("u1")}, name |-> {Str("Geo")}, job |-> Jobs])

Primaries ==
    {Null, Undefined, Str(""), Str("DEFAULT"), Str("Geo"), Num(0), NumInt(1),
     Bool(FALSE), Bool(TRUE)}

(***************************************************************************)
(* Spec: every function and idiom applied to every input.  Each action is  *)
(* one call observed from a fresh console, document and write log: the     *)
(* functions keep no state between calls.                                  *)
(***************************************************************************)
NoBindings == <<>>
NoCall == [fn |-> "none", args |-> <<>>]

Init ==
    /\ pc = "idle"
    /\ call = NoCall
    /\ console = <<>>
    /\ invoked = <<>>
    /\ dom = EmptyDocument
    /\ writes = <<>>
    /\ store = NoBindings
    /\ outcome = Return(Undefined)

\* console.log(r) of an expression that completed with r
LogOf(r) == IF r.kind = "return" THEN << <<r.v>> >> ELSE <<>>

CallPrintEmployeeInformation ==
    \E emp \in Employees :
        /\ call' = [fn |-> "printEmployeeInformation", args |-> <<emp>>]
        /\ console' = printEmployeeInformation(emp)
        /\ invoked' = <<>>
        /\ dom' = EmptyDocument
        /\ writes' = <<>>
        /\ store' = NoBindings
        /\ outcome' = Return(Undefined)
        /\ UNCHANGED pc

CallUseVehicle ==
    \E vehicle \in Vehicles :
        /\ call' = [fn |-> "useVehicle", args |-> <<vehicle>>]
        /\ console' = useVehicle(vehicle).console
        /\ invoked' = useVehicle(vehicle).invoked
        /\ dom' = EmptyDocument
        /\ writes' = <<>>
        /\ store' = NoBindings
        /\ outcome' = Return(Undefined)
        /\ UNCHANGED pc

CallMoveAnimal ==
    \E animal \in Animals :
        /\ call' = [fn |-> "moveAnimal", args |-> <<animal>>]
        /\ console' = moveAnimal(animal)
        /\ invoked' = <<>>
        /\ dom' = EmptyDocument
        /\ writes' = <<>>
        /\ store' = NoBindings
        /\ outcome' = Return(Undefined)
        /\ UNCHANGED pc

CallAdd ==
    \E a \in Combinables, b \in Combinables :
        /\ call' = [fn |-> "add", args |-> <<a, b>>]
        /\ console' = <<>>
        /\ invoked' = <<>>
        /\ dom' = EmptyDocument
        /\ writes' = <<>>
        /\ store' = NoBindings
        /\ outcome' = Return(add(a, b))
        /\ UNCHANGED pc

\* lines 154-155 on a document holding el under user-input
CallUncheckedWrite ==
    \E el \in UserInputStates :
        LET r == UncheckedWrite([EmptyDocument EXCEPT !["user-input"] = el], <<>>)
        IN  /\ call' = [fn |-> "uncheckedWrite", args |-> <<el>>]
            /\ console' = <<>>
            /\ invoked' = <<>>
            /\ dom' = r.dom
            /\ writes' = r.writes
            /\ store' = NoBindings
            /\ outcome' = r.outcome
            /\ UNCHANGED pc

\* lines 164-167 on a document holding el under user-input
CallCheckedWrite ==
    \E el \in UserInputStates :
        LET r == CheckedWrite([EmptyDocument EXCEPT !["user-input"] = el], <<>>)
        IN  /\ call' = [fn |-> "checkedWrite", args |-> <<el>>]
            /\ console' = <<>>
            /\ invoked' = <<>>
            /\ dom' = r.dom
            /\ writes' = r.writes
            /\ store' = NoBindings
            /\ outcome' = r.outcome
            /\ UNCHANGED pc

\* line 214 on a fetched user
CallPlainAccess ==
    \E data \in FetchedUsers :
        /\ call' = [fn |-> "plainAccess", args |-> <<data>>]
        /\ console' = LogOf(PlainAccess(data))
        /\ invoked' = <<>>
        /\ dom' = EmptyDocument
        /\ writes' = <<>>
        /\ store' = NoBindings
        /\ outcome' = PlainAccess(data)
        /\ UNCHANGED pc

\* line 217 on a fetched user
CallGuardedAccess ==
    \E data \in FetchedUsers :
        /\ call' = [fn |-> "guardedAccess", args |-> <<data>>]
        /\ console' = LogOf(GuardedAccess(data))
        /\ invoked' = <<>>
        /\ dom' = EmptyDocument
        /\ writes' = <<>>
        /\ store' = NoBindings
        /\ outcome' = GuardedAccess(data)
        /\ UNCHANGED pc

\* line 220 on a fetched user
CallOptionalAccess ==
    \E data \in FetchedUsers :
        /\ call' = [fn |-> "optionalAccess", args |-> <<data>>]
        /\ console' = LogOf(OptionalAccess(data))
        /\ invoked' = <<>>
        /\ dom' = EmptyDocument
        /\ writes' = <<>>
        /\ store' = NoBindings
        /\ outcome' = OptionalAccess(data)
        /\ UNCHANGED pc

\* lines 223-231 on a user input
CallDefaultSubstitution ==
    \E userInput \in Primaries :
        /\ call' = [fn |-> "defaultSubstitution", args |-> <<userInput>>]
        /\ console' = << <<NullishCoalesce(userInput, Str("DEFAULT"))>> >>
        /\ invoked' = <<>>
        /\ dom' = EmptyDocument
        /\ writes' = <<>>
        /\ store' = [userInput |-> userInput,
                     storedData |-> LogicalOr(userInput, Str("DEFAULT")),
                     storedDatas |-> NullishCoalesce(userInput, Str("DEFAULT"))]
        /\ outcome' = Return(Undefined)
        /\ UNCHANGED pc

Next ==
    \/ CallPrintEmployeeInformation
    \/ CallUseVehicle
    \/ CallMoveAnimal
    \/ CallAdd
    \/ CallUncheckedWrite
    \/ CallCheckedWrite
    \/ CallPlainAccess
    \/ CallGuardedAccess
    \/ CallOptionalAccess
    \/ CallDefaultSubstitution

Spec == Init /\ [][Next]_vars

(***************************************************************************)
(* ScriptSpec: the top-level statements of the script, in order, one       *)
(* action per statement.  pc names the line of the next statement.  An     *)
(* exception no statement catches ends the script: pc becomes "crashed"    *)
(* and no action is enabled any more.                                      *)
(***************************************************************************)
Documents ==
    {[EmptyDocument EXCEPT !["p"] = p, !["message-output"] = m, !["user-input"] = u] :
        p \in {Null, [tag |-> "p", props |-> <<>>]},
        m \in {Null, ParagraphElement},
        u \in UserInputStates}

ScriptInit ==
    /\ pc = "L27"
    /\ call = NoCall
    /\ console = <<>>
    /\ invoked = <<>>
    /\ dom \in Documents
    /\ writes = <<>>
    /\ store = NoBindings
    /\ outcome = Return(Undefined)

\* const k = v
Bind(st, k, v) == [j \in DOMAIN st \cup {k} |-> IF j = k THEN v ELSE st[j]]

\* the uncaught exception e ends the script
Crash(e) ==
    /\ pc' = "crashed"
    /\ outcome' = Throw(e)

\* const e1 = {...}: startDate reads the clock
Stmt27 ==
    /\ pc = "L27"
    /\ \E d \in Dates :
          store' = Bind(store, "e1",
                        Obj([name |-> Str("Geo"),
                             privileges |-> Arr(<<Str("create-server")>>),
                             startDate |-> d]))
    /\ pc' = "L65"
    /\ UNCHANGED <<call, console, invoked, dom, writes, outcome>>

Stmt65 ==
    /\ pc = "L65"
    /\ console' = console \o printEmployeeInformation(store["e1"])
    /\ pc' = "L66"
    /\ UNCHANGED <<call, invoked, dom, writes, store, outcome>>

\* the clock does not run backwards between line 30 and line 66
Stmt66 ==
    /\ pc = "L66"
    /\ \E d \in Dates :
          /\ d.d >= GetProp(store["e1"], "startDate").d
          /\ console' = console \o printEmployeeInformation(
                            Obj([name |-> Str("Kallyn"), startDate |-> d]))
    /\ pc' = "L85"
    /\ UNCHANGED <<call, invoked, dom, writes, store, outcome>>

Stmt85 ==
    /\ pc = "L85"
    /\ store' = Bind(Bind(store, "v1", Instance("Car")), "v2", Instance("Truck"))
    /\ pc' = "L97"
    /\ UNCHANGED <<call, console, invoked, dom, writes, outcome>>

Stmt97 ==
    /\ pc = "L97"
    /\ console' = console \o useVehicle(store["v1"]).console
    /\ invoked' = invoked \o useVehicle(store["v1"]).invoked
    /\ pc' = "L98"
    /\ UNCHANGED <<call, dom, writes, store, outcome>>

Stmt98 ==
    /\ pc = "L98"
    /\ console' = console \o useVehicle(store["v2"]).console
    /\ invoked' = invoked \o useVehicle(store["v2"]).invoked
    /\ pc' = "L133"
    /\ UNCHANGED <<call, dom, writes, store, outcome>>

Stmt133 ==
    /\ pc = "L133"
    /\ console' = console \o
           moveAnimal(Obj([type |-> Str("bird"), flyingSpeed |-> Num(55)]))
    /\ pc' = "L140"
    /\ UNCHANGED <<call, invoked, dom, writes, store, outcome>>

Stmt140 ==
    /\ pc = "L140"
    /\ store' = Bind(store, "paragraph", getElementById(dom, "p"))
    /\ pc' = "L143"
    /\ UNCHANGED <<call, console, invoked, dom, writes, outcome>>

Stmt143 ==
    /\ pc = "L143"
    /\ store' = Bind(store, "paragraph2", getElementById(dom, "message-output"))
    /\ pc' = "L154"
    /\ UNCHANGED <<call, console, invoked, dom, writes, outcome>>

Stmt154 ==
    /\ pc = "L154"
    /\ store' = Bind(store, "userInputElement1",
                     AssertedCast(getElementById(dom, "user-input")))
    /\ pc' = "L155"
    /\ UNCHANGED <<call, console, invoked, dom, writes, outcome>>

\* the statement with the exception swallowed: the script goes on
WriteStmt_recovering(ref, next) ==
    LET r == SetValue(dom, writes, ref, Str("Hi there!"))
    IN  /\ dom' = r.dom
        /\ writes' = r.writes
        /\ pc' = next
        /\ UNCHANGED outcome

\* ref.value = "Hi there!" as a statement: completes and goes to next, or throws
WriteStmt(ref, next) ==
    LET r == SetValue(dom, writes, ref, Str("Hi there!"))
    IN  /\ dom' = r.dom
        /\ writes' = r.writes
        /\ IF r.outcome.kind = "throw"
           THEN Crash(r.outcome.e)
           ELSE pc' = next /\ UNCHANGED outcome

Stmt155 ==
    /\ pc = "L155"
    /\ WriteStmt(store["userInputElement1"], "L158")
    /\ UNCHANGED <<call, console, invoked, store>>

Stmt158 ==
    /\ pc = "L158"
    /\ store' = Bind(store, "userInputElement2",
                     AssertedCast(getElementById(dom, "user-input")))
    /\ pc' = "L159"
    /\ UNCHANGED <<call, console, invoked, dom, writes, outcome>>

Stmt159 ==
    /\ pc = "L159"
    /\ WriteStmt(store["userInputElement2"], "L164")
    /\ UNCHANGED <<call, console, invoked, store>>

Stmt164 ==
    /\ pc = "L164"
    /\ store' = Bind(store, "userInputElement3", getElementById(dom, "user-input"))
    /\ pc' = "L165"
    /\ UNCHANGED <<call, console, invoked, dom, writes, outcome>>

Stmt165 ==
    /\ pc = "L165"
    /\ IF ToBoolean(store["userInputElement3"])
       THEN WriteStmt(AssertedCast(store["userInputElement3"]), "L180")
       ELSE pc' = "L180" /\ UNCHANGED <<dom, writes, outcome>>
    /\ UNCHANGED <<call, console, invoked, store>>

Stmt180 ==
    /\ pc = "L180"
    /\ store' = Bind(store, "errorBag",
                     Obj([email |-> Str("Not a valid email"),
                          username |-> Str("Must start with a capital character")]))
    /\ pc' = "L201"
    /\ UNCHANGED <<call, console, invoked, dom, writes, outcome>>

Stmt201 ==
    /\ pc = "L201"
    /\ store' = Bind(store, "result", add(NumInt(1), NumInt(5)))
    /\ pc' = "L203"
    /\ UNCHANGED <<call, console, invoked, dom, writes, outcome>>

Stmt203 ==
    /\ pc = "L203"
    /\ store' = Bind(store, "result2", add(Str("Geo"), Str(" Sauer")))
    /\ pc' = "L204"
    /\ UNCHANGED <<call, console, invoked, dom, writes, outcome>>

\* result2.split(" "): only a string has split; its result is dropped
Stmt204 ==
    /\ pc = "L204"
    /\ IF TypeOf(store["result2"]) = "string"
       THEN pc' = "L207" /\ UNCHANGED outcome
       ELSE Crash("TypeError")
    /\ UNCHANGED <<call, console, invoked, dom, writes, store>>

Stmt207 ==
    /\ pc = "L207"
    /\ store' = Bind(store, "fetchedUserData",
                     Obj([id |-> Str("u1"), name |-> Str("Geo"),
                          job |-> Obj([title |-> Str("CEO"),
                                       description |-> Str("My own company")])]))
    /\ pc' = "L214"
    /\ UNCHANGED <<call, console, invoked, dom, writes, outcome>>

\* console.log(r) as a statement, r the completion of its argument
LogStmt(r, next) ==
    IF r.kind = "throw"
    THEN Crash(r.e) /\ UNCHANGED console
    ELSE console' = console \o LogOf(r) /\ pc' = next /\ UNCHANGED outcome

Stmt214 ==
    /\ pc = "L214"
    /\ LogStmt(PlainAccess(store["fetchedUserData"]), "L217")
    /\ UNCHANGED <<call, invoked, dom, writes, store>>

Stmt217 ==
    /\ pc = "L217"
    /\ LogStmt(GuardedAccess(store["fetchedUserData"]), "L220")
    /\ UNCHANGED <<call, invoked, dom, writes, store>>

Stmt220 ==
    /\ pc = "L220"
    /\ LogStmt(OptionalAccess(store["fetchedUserData"]), "L223")
    /\ UNCHANGED <<call, invoked, dom, writes, store>>

Stmt223 ==
    /\ pc = "L223"
    /\ store' = Bind(store, "userInput", Null)
    /\ pc' = "L226"
    /\ UNCHANGED <<call, console, invoked, dom, writes, outcome>>

Stmt226 ==
    /\ pc = "L226"
    /\ store' = Bind(store, "storedData", LogicalOr(store["userInput"], Str("DEFAULT")))
    /\ pc' = "L229"
    /\ UNCHANGED <<call, console, invoked, dom, writes, outcome>>

Stmt229 ==
    /\ pc = "L229"
    /\ store' = Bind(store, "storedDatas",
                     NullishCoalesce(store["userInput"], Str("DEFAULT")))
    /\ pc' = "L231"
    /\ UNCHANGED <<call, console, invoked, dom, writes, outcome>>

Stmt231 ==
    /\ pc = "L231"
    /\ LogStmt(Return(store["storedDatas"]), "done")
    /\ UNCHANGED <<call, invoked, dom, writes, store>>

ScriptNext ==
    \/ Stmt27 \/ Stmt65 \/ Stmt66 \/ Stmt85 \/ Stmt97 \/ Stmt98 \/ Stmt133
    \/ Stmt140 \/ Stmt143 \/ Stmt154 \/ Stmt155 \/ Stmt158 \/ Stmt159
    \/ Stmt164 \/ Stmt165 \/ Stmt180 \/ Stmt201 \/ Stmt203 \/ Stmt204
    \/ Stmt207 \/ Stmt214 \/ Stmt217 \/ Stmt220 \/ Stmt223 \/ Stmt226
    \/ Stmt229 \/ Stmt231

ScriptSpec == ScriptInit /\ [][ScriptNext]_vars

(***************************************************************************)
(* Properties.                                                             *)
(***************************************************************************)
\* the lines of the console whose first argument is the label
LinesLabelled(label) == {i \in 1..Len(console) : console[i][1] = Str(label)}

\* C1: after printEmployeeInformation(emp) the name line is always printed
\* (first, once), the privileges line is printed iff emp has a privileges
\* property and the start-date line iff it has a startDate property, each
\* carrying the property's value, whatever the other property does.
C1_FieldPresenceDecidesLines ==
    call.fn = "printEmployeeInformation" =>
        LET emp == call.args[1]
        IN  /\ LinesLabelled("Name: ") = {1}
            /\ console[1][2] = (IF "name" \in DOMAIN emp.f THEN emp.f["name"]
                                ELSE Undefined)
            /\ ("privileges" \in DOMAIN emp.f) <=>
                   (LinesLabelled("Privileges: ") # {})
            /\ ("startDate" \in DOMAIN emp.f) <=>
                   (LinesLabelled("Start Date: ") # {})
            /\ Cardinality(LinesLabelled("Privileges: ")) <= 1
            /\ Cardinality(LinesLabelled("Start Date: ")) <= 1
            /\ \A i \in LinesLabelled("Privileges: ") :
                   console[i][2] = emp.f["privileges"]
            /\ \A i \in LinesLabelled("Start Date: ") :
                   console[i][2] = emp.f["startDate"]
            /\ Len(console) = 1 + Cardinality(LinesLabelled("Privileges: "))
                                + Cardinality(LinesLabelled("Start Date: "))

\* a value carrying privileges (holding undefined) and no startDate: the
\* privileges line is there, the start-date line is not
C1_Witness ==
    /\ call.fn = "printEmployeeInformation"
    /\ DOMAIN call.args[1].f = {"name", "privileges"}
    /\ call.args[1].f["privileges"] = Undefined
    /\ console = << <<Str("Name: "), call.args[1].f["name"]>>,
                    <<Str("Privileges: "), Undefined>> >>

\* how often method m was invoked
Invocations(m) == Cardinality({i \in 1..Len(invoked) : invoked[i].method = m})

\* C2: useVehicle on a Truck invokes drive exactly once and loadCargo exactly
\* once; on a Car it invokes drive exactly once and loadCargo never.
C2_TruckLoadsCarDoesNot ==
    call.fn = "useVehicle" =>
        /\ Invocations("drive") = 1
        /\ call.args[1] = Instance("Truck") => Invocations("loadCargo") = 1
        /\ call.args[1] = Instance("Car") => Invocations("loadCargo") = 0
        /\ \A i \in 1..Len(invoked) : invoked[i].cls = call.args[1].cls

C2_Witness ==
    /\ call.fn = "useVehicle"
    /\ call.args[1] = Instance("Truck")
    /\ invoked = << [cls |-> "Truck", method |-> "drive", args |-> <<>>],
                    [cls |-> "Truck", method |-> "loadCargo",
                     args |-> <<NumInt(1000)>>] >>

\* the console holds the one message reporting the speed of h halves
SpeedReported(h) ==
    console = << << Str("Moving with speed: " \o NumberToString(h)) >> >>

\* C3: moveAnimal on a value tagged "bird" reports its flyingSpeed and on a
\* value tagged "horse" its runningSpeed: of all the speeds of the model the
\* message is the one of that field's number and of no other.
C3_ReportedSpeedIsTaggedField ==
    call.fn = "moveAnimal" =>
        LET animal == call.args[1].f
            tag == IF "type" \in DOMAIN animal THEN animal["type"] ELSE Undefined
        IN  /\ (tag = Str("bird") /\ "flyingSpeed" \in DOMAIN animal) =>
                   \A n \in Numbers :
                       SpeedReported(n.h) <=> n = animal["flyingSpeed"]
            /\ (tag = Str("horse") /\ "runningSpeed" \in DOMAIN animal) =>
                   \A n \in Numbers :
                       SpeedReported(n.h) <=> n = animal["runningSpeed"]

\* a horse at -0.5 that also carries a flyingSpeed of 27.5
C3_Witness ==
    /\ call.fn = "moveAnimal"
    /\ call.args[1] = Obj([type |-> Str("horse"), runningSpeed |-> Num(-1),
                           flyingSpeed |-> Num(55)])
    /\ console = << << Str("Moving with speed: -0.5") >> >>

\* C4: add(a, b) is the concatenation of the texts of a then b as soon as one
\* of them is a string, and the sum otherwise; add(1, 5) is the number 6 and
\* add("Geo", " Sauer") the string "Geo Sauer".
C4_AddConcatenatesOrSums ==
    call.fn = "add" =>
        LET a == call.args[1]
            b == call.args[2]
            text(v) == IF v.t = "string" THEN v.s ELSE NumberToString(v.h)
        IN  /\ outcome.kind = "return"
            /\ (a.t = "string" \/ b.t = "string") =>
                   outcome.v = Str(text(a) \o text(b))
            /\ (a.t = "number" /\ b.t = "number") =>
                   outcome.v = Num(a.h + b.h)
            /\ (a = NumInt(1) /\ b = NumInt(5)) => outcome.v = NumInt(6)
            /\ (a = Str("Geo") /\ b = Str(" Sauer")) => outcome.v = Str("Geo Sauer")
            /\ (a = Str("5") /\ b = NumInt(5)) => outcome.v = Str("55")
            /\ (a = Num(-1) /\ b = Str("5")) => outcome.v = Str("-0.55")

\* a number then a string: the number is coerced, the order kept
C4_Witness ==
    /\ call.fn = "add"
    /\ call.args = <<NumInt(1), Str(" Sauer")>>
    /\ outcome = Return(Str("1 Sauer"))

\* the document as it was before the write of the last call
DocumentBefore == [EmptyDocument EXCEPT !["user-input"] = call.args[1]]

TheWrite == [id |-> "user-input", field |-> "value", value |-> Str("Hi there!")]

\* C5: on the checked path an absent lookup result raises nothing and no write
\* is attempted (the document is untouched); a present input element gets
\* exactly one write, of "Hi there!" to its value.
C5_CheckedPathNeverFailsOnAbsence ==
    call.fn = "checkedWrite" =>
        LET el == call.args[1]
        IN  /\ el = Null =>
                   /\ outcome.kind = "return"
                   /\ writes = <<>>
                   /\ dom = DocumentBefore
            /\ (el # Null /\ el.tag = "input") =>
                   /\ outcome.kind = "return"
                   /\ writes = <<TheWrite>>
                   /\ dom["user-input"].props["value"] = Str("Hi there!")

C5_Witness ==
    /\ call.fn = "checkedWrite"
    /\ call.args[1] = Null
    /\ outcome = Return(Undefined)
    /\ writes = <<>>

\* the checked path on a present input element: one write
C5_WitnessPresent ==
    /\ call.fn = "checkedWrite"
    /\ call.args[1] = InputElement("old")
    /\ writes = <<TheWrite>>

\* the assertion of the unchecked path is wrong about the element el
AssertionWrong(el) == el = Null \/ "value" \notin DOMAIN el.props

\* C6 as claimed: on the unchecked path, whenever the lookup result is absent
\* or is present without a value property, the write fails with an error.
C6_WrongAssertionAlwaysFails ==
    (call.fn = "uncheckedWrite" /\ AssertionWrong(call.args[1])) =>
        outcome.kind = "throw"

\* C6 amended: on the unchecked path the write fails with a TypeError, and
\* changes nothing, exactly when the lookup result is absent; on a present
\* element without a value property it does not fail: it creates the property.
C6_OnlyAbsenceFails ==
    call.fn = "uncheckedWrite" =>
        LET el == call.args[1]
        IN  /\ el = Null =>
                   /\ outcome = Throw("TypeError")
                   /\ writes = <<>>
                   /\ dom = DocumentBefore
            /\ (el # Null /\ "value" \notin DOMAIN el.props) =>
                   /\ outcome.kind = "return"
                   /\ writes = <<TheWrite>>
                   /\ dom["user-input"].props["value"] = Str("Hi there!")
            /\ outcome.kind = "throw" <=> el = Null

\* a div under user-input: the cast is wrong and the write goes through
C6_Witness ==
    /\ call.fn = "uncheckedWrite"
    /\ call.args[1] = DivElement
    /\ outcome.kind = "return"
    /\ dom["user-input"].props["value"] = Str("Hi there!")

\* the absent case of the unchecked path: the write throws
C6_WitnessAbsent ==
    /\ call.fn = "uncheckedWrite"
    /\ call.args[1] = Null
    /\ outcome = Throw("TypeError")

\* C7: ?? gives the fallback exactly for a null or undefined primary and the
\* primary otherwise; || gives the fallback for every falsy primary and the
\* primary otherwise; both give "DEFAULT" for an absent primary, and for the
\* empty string ?? gives "" where || gives "DEFAULT".
C7_NullishVersusFalsy ==
    call.fn = "defaultSubstitution" =>
        LET primary == store["userInput"]
            absent == primary \in {Null, Undefined}
            falsy == primary \in {Null, Undefined, Str(""), Num(0), Bool(FALSE)}
        IN  /\ store["storedDatas"] = (IF absent THEN Str("DEFAULT") ELSE primary)
            /\ store["storedData"] = (IF falsy THEN Str("DEFAULT") ELSE primary)
            /\ absent => /\ store["storedDatas"] = Str("DEFAULT")
                         /\ store["storedData"] = Str("DEFAULT")
            /\ (falsy /\ ~absent) => store["storedDatas"] # store["storedData"]
            /\ primary = Str("") => /\ store["storedDatas"] = Str("")
                                    /\ store["storedData"] = Str("DEFAULT")
            /\ console = << <<store["storedDatas"]>> >>

C7_Witness ==
    /\ call.fn = "defaultSubstitution"
    /\ store["userInput"] = Str("")
    /\ store["storedDatas"] = Str("")
    /\ store["storedData"] = Str("DEFAULT")

\* C8 as claimed: moveAnimal emits no speed message for a value whose
\* discriminator is neither "bird" nor "horse".
C8_UnknownTagEmitsNothing ==
    (/\ call.fn = "moveAnimal"
     /\ GetProp(call.args[1], "type") \notin {Str("bird"), Str("horse")}) =>
        console = <<>>

\* C10: data?.job?.title never throws; it yields the title of the job when
\* data and its job are both present, and undefined as soon as data or its job
\* is null, undefined or missing.
C10_OptionalAccessIsTotal ==
    call.fn = "optionalAccess" =>
        LET data == call.args[1]
            dataPresent == data.t = "object"
            jobPresent == /\ dataPresent
                          /\ "job" \in DOMAIN data.f
                          /\ data.f["job"].t = "object"
        IN  /\ outcome.kind = "return"
            /\ jobPresent =>
                   outcome.v = (IF "title" \in DOMAIN data.f["job"].f
                                THEN data.f["job"].f["title"] ELSE Undefined)
            /\ ~jobPresent => outcome.v = Undefined
            /\ console = << <<outcome.v>> >>

\* a present user whose job is null: undefined, where data.job.title throws
C10_Witness ==
    /\ call.fn = "optionalAccess"
    /\ call.args[1].t = "object"
    /\ "job" \in DOMAIN call.args[1].f
    /\ call.args[1].f["job"] = Null
    /\ outcome = Return(Undefined)

\* the statements up to the first unchecked write, and the crash
UpToFirstWrite ==
    {"L27", "L65", "L66", "L85", "L97", "L98", "L133", "L140", "L143", "L154",
     "L155", "crashed"}

\* the console after the demos that precede the type-casting demo
ConsoleBeforeCasts ==
    /\ Len(console) = 9
    /\ console[1] = <<Str("Name: "), Str("Geo")>>
    /\ console[2] = <<Str("Privileges: "), Arr(<<Str("create-server")>>)>>
    /\ console[3][1] = Str("Start Date: ") /\ console[3][2] \in Dates
    /\ console[4] = <<Str("Name: "), Str("Kallyn")>>
    /\ console[5][1] = Str("Start Date: ") /\ console[5][2] \in Dates
    /\ console[6] = <<Str("Driving...")>>
    /\ console[7] = <<Str("Driving a truck...")>>
    /\ console[8] = <<Str("loading cargo...1000")>>
    /\ console[9] = <<Str("Moving with speed: 27.5")>>

C9_AbsentRunState ==
    dom["user-input"] = Null =>
        /\ pc \in UpToFirstWrite
        /\ writes = <<>>
        /\ \A i \in 1..Len(console) :
               console[i] \notin {<<Str("CEO")>>, <<Str("DEFAULT")>>}
        /\ DOMAIN store \subseteq
               {"e1", "v1", "v2", "paragraph", "paragraph2", "userInputElement1"}
        /\ pc = "crashed" =>
               /\ outcome = Throw("TypeError")
               /\ "userInputElement1" \in DOMAIN store
               /\ store["userInputElement1"] = Null
               /\ ConsoleBeforeCasts

\* C9: in a run of the script on a document without user-input, the write of
\* line 155 throws a TypeError that ends the script: no later statement runs
\* (no write, no later binding, no line of the optional-access and default
\* demos), the nine lines of the earlier demos are on the console, and once
\* the script has crashed nothing changes any more.
C9_AbsenceIsFatalAtFirstWrite ==
    /\ []C9_AbsentRunState
    /\ [][pc = "crashed" => UNCHANGED vars]_vars

C9_Witness ==
    /\ pc = "crashed"
    /\ dom["user-input"] = Null
    /\ outcome = Throw("TypeError")
    /\ ConsoleBeforeCasts
    /\ writes = <<>>

====
